---- MODULE Spec2Model ----
(***************************************************************************)
(* Fixed-size containers of linalgo: Vector<T> and SquareMatrix<T> of the  *)
(* crate linalgo_structs, and the SquareMatrix<T> of the crate linalgo.    *)
(* A caller constructs one container kind (a Vector, or the two            *)
(* SquareMatrix implementations side by side with the same size) and then  *)
(* calls size / get / set / set_all_to on it in any order.                 *)
(***************************************************************************)
EXTENDS Integers, Sequences, FiniteSets

\* Largest size passed to new, and largest index passed to get / set.
MaxSize == 2

\* Number of calls (new included) one caller makes.
MaxCalls == 4

\* The values of T the caller uses (T = i32 in the doc tests and in main).
Values == {0, 1}

Sizes == 0..MaxSize
Indices == 0..MaxSize

----------------------------------------------------------------------------
\* Option<T>
None == <<>>
Some(x) == <<x>>
Unwrap(o) == o[1]

\* Vec::resize(new_len, value) : truncate, or extend with clones of value
Resize(vec, new_len, x) ==
    IF new_len <= Len(vec)
    THEN SubSeq(vec, 1, new_len)
    ELSE vec \o [k \in 1..(new_len - Len(vec)) |-> x]

\* slice::get(index) / slice::get_mut(index) : None when index >= len
SliceGet(vec, index) ==
    IF index < Len(vec) THEN Some(vec[index + 1]) ELSE None

\* *entry = x, for the entry that get_mut(index) returned
SliceStore(vec, index, x) == [vec EXCEPT ![index + 1] = x]

----------------------------------------------------------------------------
\* linalgo_structs::Vector

\* Vector::new that starts every slot at the default value of T
Vector_new_default(size) ==
    IF size = 0
    THEN None
    ELSE Some([size |-> size, data |-> Resize(<<>>, size, Some(0))])

\* Vector::new ; None stands for the panic (no object is returned)
Vector_new(size) ==
    IF size = 0
    THEN None
    ELSE Some([size |-> size, data |-> Resize(<<>>, size, None)])

Vector_size(self) == self.size

Vector_get(self, position) ==
    LET entry == SliceGet(self.data, position)
    IN  IF entry = None THEN None ELSE Unwrap(entry)

\* Vector::set that only fills an empty slot
Vector_set_if_empty(self, position, v) ==
    IF SliceGet(self.data, position) = Some(None)
    THEN [self EXCEPT !.data = SliceStore(self.data, position, Some(v))]
    ELSE self

\* Vector::set that pushes when the position is one past the end
Vector_set_push(self, position, v) ==
    IF SliceGet(self.data, position) # None
    THEN [self EXCEPT !.data = SliceStore(self.data, position, Some(v))]
    ELSE [self EXCEPT !.data = Append(self.data, Some(v))]

\* Vector::set whose slots all share one cell
Vector_set_shared(self, position, v) ==
    IF SliceGet(self.data, position) # None
    THEN [self EXCEPT !.data = [n \in 1..Len(self.data) |-> Some(v)]]
    ELSE self

Vector_set(self, position, v) ==
    IF SliceGet(self.data, position) # None
    THEN [self EXCEPT !.data = SliceStore(self.data, position, Some(v))]
    ELSE self

\* the entry loop stopping one entry early
FillEntries_skip_last(row, k, v) ==
    [n \in 1..Len(row) |-> IF n - 1 >= k /\ n < Len(row) THEN Some(v) ELSE row[n]]

\* for entry in data.iter_mut() { *entry = Some(value.clone()) }, from entry k on
RECURSIVE FillEntries(_, _, _)
FillEntries(row, k, v) ==
    IF k >= Len(row)
    THEN row
    ELSE FillEntries(SliceStore(row, k, Some(v)), k + 1, v)

Vector_set_all_to(self, v) ==
    [self EXCEPT !.data = FillEntries(self.data, 0, v)]

----------------------------------------------------------------------------
\* linalgo_structs::SquareMatrix

\* SquareMatrix::new without the size check
SquareMatrix_new_unchecked(size) ==
    LET row == Resize(<<>>, size, None)
    IN  Some([size |-> size, data |-> Resize(<<>>, size, row)])

\* SquareMatrix::new whose rows are one slot short
SquareMatrix_new_short_rows(size) ==
    IF size = 0
    THEN None
    ELSE LET row == Resize(<<>>, size - 1, None)
         IN  Some([size |-> size, data |-> Resize(<<>>, size, row)])

SquareMatrix_new(size) ==
    IF size = 0
    THEN None
    ELSE LET row == Resize(<<>>, size, None)
         IN  Some([size |-> size, data |-> Resize(<<>>, size, row)])

SquareMatrix_size(self) == self.size

\* SquareMatrix::get that checks the row only and clamps the column
SquareMatrix_get_clamp(self, row, column) ==
    LET r == SliceGet(self.data, row)
    IN  IF r # None
        THEN LET c == IF column < Len(Unwrap(r)) THEN column ELSE Len(Unwrap(r)) - 1
             IN  Unwrap(SliceGet(Unwrap(r), c))
        ELSE None

SquareMatrix_get(self, row, column) ==
    LET r == SliceGet(self.data, row)
    IN  IF r # None
        THEN LET entry == SliceGet(Unwrap(r), column)
             IN  IF entry # None THEN Unwrap(entry) ELSE None
        ELSE None

\* SquareMatrix::set that checks the row only and clamps the column
SquareMatrix_set_clamp(self, row, column, v) ==
    LET r == SliceGet(self.data, row)
    IN  IF r # None
        THEN LET c == IF column < Len(Unwrap(r)) THEN column ELSE Len(Unwrap(r)) - 1
             IN  [self EXCEPT !.data = SliceStore(self.data, row,
                                  SliceStore(Unwrap(r), c, Some(v)))]
        ELSE self

\* SquareMatrix::set on rows that all alias one row
SquareMatrix_set_shared_rows(self, row, column, v) ==
    LET r == SliceGet(self.data, row)
    IN  IF r # None
        THEN IF SliceGet(Unwrap(r), column) # None
             THEN [self EXCEPT !.data = [n \in 1..Len(self.data) |->
                                  SliceStore(self.data[n], column, Some(v))]]
             ELSE self
        ELSE self

SquareMatrix_set(self, row, column, v) ==
    LET r == SliceGet(self.data, row)
    IN  IF r # None
        THEN IF SliceGet(Unwrap(r), column) # None
             THEN [self EXCEPT !.data = SliceStore(self.data, row,
                                  SliceStore(Unwrap(r), column, Some(v)))]
             ELSE self
        ELSE self

\* for row in data.iter_mut() { for entry in row.iter_mut() { ... } }, from row k on
RECURSIVE FillRows(_, _, _)
FillRows(data, k, v) ==
    IF k >= Len(data)
    THEN data
    ELSE FillRows(SliceStore(data, k, FillEntries(data[k + 1], 0, v)), k + 1, v)

SquareMatrix_set_all_to(self, v) ==
    [self EXCEPT !.data = FillRows(self.data, 0, v)]

----------------------------------------------------------------------------
\* linalgo::square_matrix::SquareMatrix

\* the push loop running one round short
PushRows_one_short(data, k, size) ==
    data \o [n \in 1..(k - 1) |-> Resize(<<>>, size, None)]

\* for _ in 0..size { row = resize(size, None); data.push(row) }, k rows to go
RECURSIVE PushRows(_, _, _)
PushRows(data, k, size) ==
    IF k = 0
    THEN data
    ELSE PushRows(Append(data, Resize(<<>>, size, None)), k - 1, size)

square_matrix_new(size) ==
    IF size = 0
    THEN None
    ELSE Some([size |-> size, data |-> PushRows(<<>>, size, size)])

square_matrix_size(self) == self.size

square_matrix_get(self, row, column) ==
    LET r == SliceGet(self.data, row)
    IN  IF r # None
        THEN LET entry == SliceGet(Unwrap(r), column)
             IN  IF entry # None THEN Unwrap(entry) ELSE None
        ELSE None

square_matrix_set(self, row, column, v) ==
    LET r == SliceGet(self.data, row)
    IN  IF r # None
        THEN IF SliceGet(Unwrap(r), column) # None
             THEN [self EXCEPT !.data = SliceStore(self.data, row,
                                  SliceStore(Unwrap(r), column, Some(v)))]
             ELSE self
        ELSE self

RECURSIVE square_matrix_fill(_, _, _)
square_matrix_fill(data, k, v) ==
    IF k >= Len(data)
    THEN data
    ELSE square_matrix_fill(
             SliceStore(data, k, FillEntries(data[k + 1], 0, v)), k + 1, v)

square_matrix_set_all_to(self, v) ==
    [self EXCEPT !.data = square_matrix_fill(self.data, 0, v)]

----------------------------------------------------------------------------
VARIABLES
    pc,        \* "start", "vector", "matrix" or "panicked"
    arg,       \* the size the caller passed to new
    vector,    \* None, or Some(the linalgo_structs::Vector)
    matrix,    \* None, or Some(the linalgo_structs::SquareMatrix)
    lmatrix,   \* None, or Some(the linalgo::square_matrix::SquareMatrix)
    value,     \* the caller's own T, lent to set_all_to as &value
    last,      \* the last call: its name, arguments and what it returned
    calls      \* number of calls made

vars == <<pc, arg, vector, matrix, lmatrix, value, last, calls>>

\* op: the call; i, j: its indices (new: i is the size); v: its value
\* argument (assign: the caller's value before); old: the container as it
\* was when the call began (Vector, or linalgo_structs::SquareMatrix);
\* ret / lret: what the call returned (lret: from the linalgo crate's matrix).
Call(op, i, j, v, old, ret, lret) ==
    [op |-> op, i |-> i, j |-> j, v |-> v, old |-> old, ret |-> ret, lret |-> lret]

Init ==
    /\ pc = "start"
    /\ arg = 0
    /\ vector = None
    /\ matrix = None
    /\ lmatrix = None
    /\ value \in Values
    /\ last = Call("none", 0, 0, None, None, None, None)
    /\ calls = 0

Vec == Unwrap(vector)
Mat == Unwrap(matrix)
LMat == Unwrap(lmatrix)
Old == Unwrap(last.old)

CallVectorNew(size) ==
    /\ pc = "start"
    /\ arg' = size
    /\ vector' = Vector_new(size)
    /\ pc' = IF vector' = None THEN "panicked" ELSE "vector"
    /\ last' = Call("Vector::new", size, 0, None, None, None, None)
    /\ calls' = calls + 1
    /\ UNCHANGED <<matrix, lmatrix, value>>

CallVectorSize ==
    /\ pc = "vector"
    /\ calls < MaxCalls
    /\ last' = Call("Vector::size", 0, 0, None, vector, Some(Vector_size(Vec)), None)
    /\ calls' = calls + 1
    /\ UNCHANGED <<pc, arg, vector, matrix, lmatrix, value>>

CallVectorGet(position) ==
    /\ pc = "vector"
    /\ calls < MaxCalls
    /\ last' = Call("Vector::get", position, 0, None, vector,
                    Vector_get(Vec, position), None)
    /\ calls' = calls + 1
    /\ UNCHANGED <<pc, arg, vector, matrix, lmatrix, value>>

CallVectorSet(position, v) ==
    /\ pc = "vector"
    /\ calls < MaxCalls
    /\ vector' = Some(Vector_set(Vec, position, v))
    /\ last' = Call("Vector::set", position, 0, Some(v), vector, None, None)
    /\ calls' = calls + 1
    /\ UNCHANGED <<pc, arg, matrix, lmatrix, value>>

CallVectorSetAllTo ==
    /\ pc = "vector"
    /\ calls < MaxCalls
    /\ vector' = Some(Vector_set_all_to(Vec, value))
    /\ last' = Call("Vector::set_all_to", 0, 0, Some(value), vector, None, None)
    /\ calls' = calls + 1
    /\ UNCHANGED <<pc, arg, matrix, lmatrix, value>>

CallMatrixNew(size) ==
    /\ pc = "start"
    /\ arg' = size
    /\ matrix' = SquareMatrix_new(size)
    /\ lmatrix' = square_matrix_new(size)
    /\ pc' = IF matrix' = None \/ lmatrix' = None THEN "panicked" ELSE "matrix"
    /\ last' = Call("SquareMatrix::new", size, 0, None, None, None, None)
    /\ calls' = calls + 1
    /\ UNCHANGED <<vector, value>>

CallMatrixSize ==
    /\ pc = "matrix"
    /\ calls < MaxCalls
    /\ last' = Call("SquareMatrix::size", 0, 0, None, matrix,
                    Some(SquareMatrix_size(Mat)), Some(square_matrix_size(LMat)))
    /\ calls' = calls + 1
    /\ UNCHANGED <<pc, arg, vector, matrix, lmatrix, value>>

CallMatrixGet(row, column) ==
    /\ pc = "matrix"
    /\ calls < MaxCalls
    /\ last' = Call("SquareMatrix::get", row, column, None, matrix,
                    SquareMatrix_get(Mat, row, column),
                    square_matrix_get(LMat, row, column))
    /\ calls' = calls + 1
    /\ UNCHANGED <<pc, arg, vector, matrix, lmatrix, value>>

CallMatrixSet(row, column, v) ==
    /\ pc = "matrix"
    /\ calls < MaxCalls
    /\ matrix' = Some(SquareMatrix_set(Mat, row, column, v))
    /\ lmatrix' = Some(square_matrix_set(LMat, row, column, v))
    /\ last' = Call("SquareMatrix::set", row, column, Some(v), matrix, None, None)
    /\ calls' = calls + 1
    /\ UNCHANGED <<pc, arg, vector, value>>

CallMatrixSetAllTo ==
    /\ pc = "matrix"
    /\ calls < MaxCalls
    /\ matrix' = Some(SquareMatrix_set_all_to(Mat, value))
    /\ lmatrix' = Some(square_matrix_set_all_to(LMat, value))
    /\ last' = Call("SquareMatrix::set_all_to", 0, 0, Some(value), matrix,
                    None, None)
    /\ calls' = calls + 1
    /\ UNCHANGED <<pc, arg, vector, value>>

\* The caller overwrites its own value between two calls.
Assign(w) ==
    /\ pc \in {"vector", "matrix"}
    /\ calls < MaxCalls
    /\ w # value
    /\ value' = w
    /\ last' = Call("assign", 0, 0, Some(value),
                    IF pc = "vector" THEN vector ELSE matrix, None, None)
    /\ UNCHANGED <<pc, arg, vector, matrix, lmatrix, calls>>

Next ==
    \/ \E size \in Sizes : CallVectorNew(size)
    \/ CallVectorSize
    \/ \E position \in Indices : CallVectorGet(position)
    \/ \E position \in Indices, v \in Values : CallVectorSet(position, v)
    \/ CallVectorSetAllTo
    \/ \E size \in Sizes : CallMatrixNew(size)
    \/ CallMatrixSize
    \/ \E row \in Indices, column \in Indices : CallMatrixGet(row, column)
    \/ \E row \in Indices, column \in Indices, v \in Values :
           CallMatrixSet(row, column, v)
    \/ CallMatrixSetAllTo
    \/ \E w \in Values : Assign(w)

Spec == Init /\ [][Next]_vars

----------------------------------------------------------------------------
\* Index sets used by the properties below.
InVec(self) == 0..(self.size - 1)
InMat(self) == (0..(self.size - 1)) \X (0..(self.size - 1))
Probe == 0..(MaxSize + 1)

\* C1: an in-bounds set(i, v) makes the next get(i) return present(v),
\* whatever the slot held before, for the Vector and for the SquareMatrix.
C1_LastWriteWins ==
    /\ (last.op = "Vector::set" /\ last.i < Vec.size)
           => Vector_get(Vec, last.i) = last.v
    /\ (last.op = "SquareMatrix::set" /\ last.i < Mat.size /\ last.j < Mat.size)
           => SquareMatrix_get(Mat, last.i, last.j) = last.v

\* An in-bounds Vector::set has just overwritten a slot holding another value.
C1_Witness ==
    /\ last.op = "Vector::set"
    /\ last.i < Vec.size
    /\ Vector_get(Old, last.i) # None
    /\ Vector_get(Old, last.i) # last.v

\* C2: set with an out-of-range position (vector), or with an out-of-range
\* row or column (matrix, partially valid pairs included), leaves the whole
\* container as it was and returns normally.
C2_OutOfRangeSetIsNoOp ==
    /\ (last.op = "Vector::set" /\ last.i >= Old.size)
           => (pc = "vector" /\ vector = last.old)
    /\ (last.op = "SquareMatrix::set" /\ (last.i >= Old.size \/ last.j >= Old.size))
           => (pc = "matrix" /\ matrix = last.old)

\* SquareMatrix::set with a valid row and an invalid column has returned, on
\* a matrix that holds values.
C2_Witness ==
    /\ last.op = "SquareMatrix::set"
    /\ last.i < Old.size
    /\ last.j >= Old.size
    /\ \E rc \in InMat(Mat) : SquareMatrix_get(Mat, rc[1], rc[2]) # None

\* C3: after set_all_to(v) every valid index of the Vector / every valid
\* (row, column) of the SquareMatrix reads present(v), and the Vector still
\* reads absent at index size.
C3_SetAllToFillsEverySlot ==
    /\ last.op = "Vector::set_all_to" =>
           /\ \A i \in InVec(Vec) : Vector_get(Vec, i) = last.v
           /\ Vector_get(Vec, Vec.size) = None
    /\ last.op = "SquareMatrix::set_all_to" =>
           \A rc \in InMat(Mat) : SquareMatrix_get(Mat, rc[1], rc[2]) = last.v

\* Vector::set_all_to(v) has run on a vector of two or more slots that was
\* partly filled, one of its slots holding another value.
C3_Witness ==
    /\ last.op = "Vector::set_all_to"
    /\ Vec.size >= 2
    /\ \E i \in InVec(Old) : Vector_get(Old, i) = None
    /\ \E i \in InVec(Old) : Vector_get(Old, i) \notin {None, last.v}

\* C4: get with an out-of-range index (vector), or with an out-of-range row
\* or column (matrix), returns absent in every state, the same result as the
\* one read at an in-range empty slot.
C4_OutOfRangeGetIsAbsent ==
    /\ pc = "vector" =>
           /\ \A p \in Probe : p >= Vec.size => Vector_get(Vec, p) = None
           /\ (last.op = "Vector::get" /\ last.i >= Vec.size) =>
                  /\ last.ret = None
                  /\ \A i \in InVec(Vec) :
                         Vec.data[i + 1] = None => Vector_get(Vec, i) = last.ret
    /\ pc = "matrix" =>
           /\ \A r \in Probe, c \in Probe :
                  (r >= Mat.size \/ c >= Mat.size) => SquareMatrix_get(Mat, r, c) = None
           /\ (last.op = "SquareMatrix::get"
                   /\ (last.i >= Mat.size \/ last.j >= Mat.size)) =>
                  /\ last.ret = None
                  /\ \A rc \in InMat(Mat) :
                         Mat.data[rc[1] + 1][rc[2] + 1] = None
                             => SquareMatrix_get(Mat, rc[1], rc[2]) = last.ret

\* SquareMatrix::get with a valid row and an invalid column has returned, on
\* a matrix of which every slot is filled.
C4_Witness ==
    /\ last.op = "SquareMatrix::get"
    /\ last.i < Mat.size
    /\ last.j >= Mat.size
    /\ \A rc \in InMat(Mat) : SquareMatrix_get(Mat, rc[1], rc[2]) # None

\* C5: right after new(size), size >= 1, get returns absent at every valid
\* index of the Vector and at every valid (row, column) of the SquareMatrix.
C5_NewIsEmpty ==
    /\ (last.op = "Vector::new" /\ last.i >= 1) =>
           /\ vector # None
           /\ \A i \in 0..(last.i - 1) : Vector_get(Vec, i) = None
    /\ (last.op = "SquareMatrix::new" /\ last.i >= 1) =>
           /\ matrix # None
           /\ \A r \in 0..(last.i - 1), c \in 0..(last.i - 1) :
                  SquareMatrix_get(Mat, r, c) = None

\* Vector::new(size) has returned for a size of two or more.
C5_Witness ==
    /\ last.op = "Vector::new"
    /\ last.i >= 2
    /\ pc = "vector"

\* C6: new(0) panics for both containers and returns no object, so that no
\* container has size 0.
C6_ZeroSizePanics ==
    /\ (last.op \in {"Vector::new", "SquareMatrix::new"} /\ last.i = 0) =>
           (pc = "panicked" /\ vector = None /\ matrix = None)
    /\ pc = "panicked" => (vector = None /\ matrix = None)
    /\ vector # None => Vec.size >= 1
    /\ matrix # None => Mat.size >= 1

\* SquareMatrix::new(0) has panicked.
C6_Witness ==
    /\ last.op = "SquareMatrix::new"
    /\ last.i = 0
    /\ pc = "panicked"

\* C7: in every state, size() is the size given to new, the vector's data
\* has size slots, and the matrix's data has size rows of size slots each.
C7_ShapeInvariant ==
    /\ pc = "vector" =>
           /\ Vector_size(Vec) = arg
           /\ Len(Vec.data) = arg
    /\ pc = "matrix" =>
           /\ SquareMatrix_size(Mat) = arg
           /\ Len(Mat.data) = arg
           /\ \A r \in 1..Len(Mat.data) : Len(Mat.data[r]) = arg
    /\ last.op \in {"Vector::size", "SquareMatrix::size"} => last.ret = Some(arg)

\* An out-of-range SquareMatrix::set has returned as the third call or
\* later on a matrix of size two or more.
C7_Witness ==
    /\ last.op = "SquareMatrix::set"
    /\ last.i >= Mat.size
    /\ arg >= 2
    /\ calls >= 3

C8_AssignWitness ==
    /\ last.op = "assign"
    /\ pc = "matrix"
    /\ \A rc \in InMat(Mat) : SquareMatrix_get(Mat, rc[1], rc[2]) = last.v

\* C9: an in-range set changes the addressed slot only (in the matrix, no
\* slot of another row); get and size change no slot.
C9_SetWritesOneSlot ==
    /\ (last.op = "SquareMatrix::set" /\ last.i < Old.size /\ last.j < Old.size) =>
           /\ Mat.size = Old.size
           /\ \A rc \in InMat(Old) \ {<<last.i, last.j>>} :
                  SquareMatrix_get(Mat, rc[1], rc[2]) = SquareMatrix_get(Old, rc[1], rc[2])
    /\ (last.op = "Vector::set" /\ last.i < Old.size) =>
           /\ Vec.size = Old.size
           /\ \A k \in InVec(Old) \ {last.i} : Vector_get(Vec, k) = Vector_get(Old, k)
    /\ last.op \in {"Vector::get", "Vector::size"} => vector = last.old
    /\ last.op \in {"SquareMatrix::get", "SquareMatrix::size"} => matrix = last.old

\* An in-range SquareMatrix::set has written a value to a slot whose column
\* is empty in another row.
C9_Witness ==
    /\ last.op = "SquareMatrix::set"
    /\ last.i < Old.size
    /\ last.j < Old.size
    /\ \E r \in 0..(Mat.size - 1) :
           r # last.i /\ SquareMatrix_get(Mat, r, last.j) = None

====
